---- MODULE Spec2Model ----
(***************************************************************************)
(* Model of src/main.c of the Sensirion SDP8xx analog conversion demo:     *)
(* the calibration routine calculateSensorOutput and the control flow of   *)
(* main (argument parsing, sample buffer allocation, timing, the sampling  *)
(* loop, the Monte Carlo reduction, the reporting branches, the auxiliary  *)
(* data file and the release of the buffer).                               *)
(*                                                                         *)
(* Real values are fixed-point integers: voltages in tenths of a volt,     *)
(* calibrated values in thousandths of a pascal (Scale).  Objects that C   *)
(* leaves uninitialised hold the value `indeterminate', which is chosen    *)
(* nondeterministically, and a ghost variable records whether the object   *)
(* has been assigned.                                                      *)
(***************************************************************************)
EXTENDS Integers, Sequences, FiniteSets

(* ------------------------------ bounds -------------------------------- *)
MaxIterations == 2
MaxTicks == 1
Indeterminate == {0, 77}

(* --------------------------- program constants ------------------------ *)
Scale == 1000
kSensorCalibrationConstantSDP8x6Linear500Pa1 == 750
kSensorCalibrationConstantSDP8x6Linear500Pa2 == 150
kSensorCalibrationConstantSDP8x6Linear125Pa1 == 190
kSensorCalibrationConstantSDP8x6Linear125Pa2 == 38
\* 0.5, 0.4 and 1.25 of the header, in thousandths
kSensorCalibrationConstantSDP8x6Sqrt500Pa1 == 500
kSensorCalibrationConstantSDP8x6Sqrt500Pa2 == 400
kSensorCalibrationConstantSDP8x6Sqrt500Pa3 == 1250
kSensorCalibrationConstantSDP8x6Sqrt500Pa4 == 525
kSensorCalibrationConstantSDP8x6Sqrt125Pa1 == 500
kSensorCalibrationConstantSDP8x6Sqrt125Pa2 == 400
kSensorCalibrationConstantSDP8x6Sqrt125Pa3 == 1250
kSensorCalibrationConstantSDP8x6Sqrt125Pa4 == 133

kInputDistributionIndexAout == 0
kInputDistributionIndexVdd == 1
kInputDistributionIndexMax == 2

kOutputDistributionIndexCalibratedSensorOutputSDP8x6Linear500Pa == 0
kOutputDistributionIndexCalibratedSensorOutputSDP8x6Linear125Pa == 1
kOutputDistributionIndexCalibratedSensorOutputSDP8x6Sqrt500Pa == 2
kOutputDistributionIndexCalibratedSensorOutputSDP8x6Sqrt125Pa == 3
kOutputDistributionIndexCalibratedSensorOutputMax == 4

\* 1.3, 1.7, 3.5 and 3.9 volts, in tenths of a volt
kDefaultInputDistributionAoutUniformDistLow == 13
kDefaultInputDistributionAoutUniformDistHigh == 17
kDefaultInputDistributionVddUniformDistLow == 35
kDefaultInputDistributionVddUniformDistHigh == 39

kCommonConstantReturnTypeError == 1
kExitFailure == 1
MicrosecondsPerSecond == 1000000
ClocksPerSec == 1000000

OutputIndices == 0 .. (kOutputDistributionIndexCalibratedSensorOutputMax - 1)

(* ------------------------------- state -------------------------------- *)
VARIABLES
    pc,                       \* position of main
    arguments,                \* CommandLineArguments.common
    indeterminate,            \* the content of objects never assigned
    inputDistributions,       \* double[kInputDistributionIndexMax]
    outputDistributions,      \* double[kOutputDistributionIndexCalibratedSensorOutputMax]
    written,                  \* ghost: entries of outputDistributions assigned so far
    lastWritten,              \* ghost: entries assigned by the latest calibration call
    calibratedSensorOutput,   \* double
    lastReturned,             \* ghost: value returned by the latest calibration call
    monteCarloOutputSamples,  \* the heap buffer, a sequence of slots
    heap,                     \* "null", "allocated" or "freed"
    freeCount,                \* ghost: calls of free on the buffer
    slotWrites,               \* ghost: the slot indices written, in order
    i,                        \* loop counter
    sampleCalls,              \* ghost: calls of setInputDistributionsViaUxHwCall
    calibrationCalls,         \* ghost: calls of calculateSensorOutput
    reduceCount,              \* ghost: calls of calculateMeanAndVarianceOfDoubleSamples
    start,                    \* clock_t
    end,                      \* clock_t
    clockRead,                \* ghost: which of start, end were read from the clock
    cpuTimeUsedSeconds,       \* elapsed clock ticks (seconds * ClocksPerSec)
    cpuTimeAssigned,          \* ghost: cpuTimeUsedSeconds was assigned
    stdout,                   \* what was printed, in order
    csvWrites,                \* attempts of writeOutputDoubleDistributionsToCSV
    dataDotOut,               \* calls of saveMonteCarloDoubleDataToDataDotOutFile
    exitCode

vars == << pc, arguments, indeterminate, inputDistributions, outputDistributions,
           written, lastWritten, calibratedSensorOutput, lastReturned,
           monteCarloOutputSamples, heap, freeCount, slotWrites, i, sampleCalls,
           calibrationCalls, reduceCount, start, end, clockRead,
           cpuTimeUsedSeconds, cpuTimeAssigned, stdout, csvWrites, dataDotOut,
           exitCode >>

(* --------------------------- pure functions --------------------------- *)
Abs(x) == IF x < 0 THEN -x ELSE x

sign(arg) == IF arg = 0 THEN 0 ELSE arg \div Abs(arg)

\* pow(x, 2); the result is in units of 1 / (Scale * Scale)
pow2(x) == x * x

\* the draws the backend can return for a uniform distribution on [low, high]
UxHwDoubleUniformDist(low, high) == {low, high}

Linear(c1, c2, Aout, Vdd) == (c1 * Aout * Scale) \div Vdd - c2 * Scale

Sqrt(k1, k2, k3, k4, Aout, Vdd) ==
    sign((Aout * Scale) \div Vdd - k1)
      * ((pow2((Aout * Scale * Scale) \div (Vdd * k2) - k3) * k4) \div Scale)

calculateSensorOutputFirst(args, inputs, outputs) ==
    LET Vdd == inputs[kInputDistributionIndexVdd]
        Aout == inputs[kInputDistributionIndexAout]
        calculateAllOutputs ==
            args.outputSelect = kOutputDistributionIndexCalibratedSensorOutputMax
        sel(k) == calculateAllOutputs \/ args.outputSelect = k
        v0 == Linear(kSensorCalibrationConstantSDP8x6Linear500Pa1,
                     kSensorCalibrationConstantSDP8x6Linear500Pa2, Aout, Vdd)
        v1 == Linear(kSensorCalibrationConstantSDP8x6Linear125Pa1,
                     kSensorCalibrationConstantSDP8x6Linear125Pa2, Aout, Vdd)
        v2 == Sqrt(kSensorCalibrationConstantSDP8x6Sqrt500Pa1,
                   kSensorCalibrationConstantSDP8x6Sqrt500Pa2,
                   kSensorCalibrationConstantSDP8x6Sqrt500Pa3,
                   kSensorCalibrationConstantSDP8x6Sqrt500Pa4, Aout, Vdd)
        v3 == Sqrt(kSensorCalibrationConstantSDP8x6Sqrt125Pa1,
                   kSensorCalibrationConstantSDP8x6Sqrt125Pa2,
                   kSensorCalibrationConstantSDP8x6Sqrt125Pa3,
                   kSensorCalibrationConstantSDP8x6Sqrt125Pa4, Aout, Vdd)
        val == << v0, v1, v2, v3 >>
        wr == {k \in OutputIndices : sel(k)}
    IN  [ table |-> [k \in OutputIndices |-> IF k \in wr THEN val[k + 1] ELSE outputs[k]],
          wrote |-> wr,
          ret   |-> IF wr = {} THEN indeterminate
                    ELSE val[(CHOOSE k \in wr : \A m \in wr : k <= m) + 1] ]

calculateSensorOutputAll(args, inputs, outputs) ==
    LET r == calculateSensorOutputFirst(
                 [args EXCEPT !.outputSelect = kOutputDistributionIndexCalibratedSensorOutputMax],
                 inputs, outputs)
    IN  [ table |-> r.table, wrote |-> r.wrote,
          ret |-> r.table[IF args.outputSelect \in OutputIndices
                          THEN args.outputSelect
                          ELSE kOutputDistributionIndexCalibratedSensorOutputSDP8x6Sqrt125Pa] ]

\* calculateSensorOutput: the four guarded blocks run in the order of the
\* source; each assigns calibratedValue and one entry of the table; the
\* value returned is the last assignment of calibratedValue.
calculateSensorOutput(args, inputs, outputs) ==
    LET Vdd == inputs[kInputDistributionIndexVdd]
        Aout == inputs[kInputDistributionIndexAout]
        calculateAllOutputs ==
            args.outputSelect = kOutputDistributionIndexCalibratedSensorOutputMax
        c0 == calculateAllOutputs \/
              args.outputSelect = kOutputDistributionIndexCalibratedSensorOutputSDP8x6Linear500Pa
        v0 == Linear(kSensorCalibrationConstantSDP8x6Linear500Pa1,
                     kSensorCalibrationConstantSDP8x6Linear500Pa2, Aout, Vdd)
        cv0 == IF c0 THEN v0 ELSE indeterminate
        t0 == IF c0
              THEN [outputs EXCEPT ![kOutputDistributionIndexCalibratedSensorOutputSDP8x6Linear500Pa] = v0]
              ELSE outputs
        c1 == calculateAllOutputs \/
              args.outputSelect = kOutputDistributionIndexCalibratedSensorOutputSDP8x6Linear125Pa
        v1 == Linear(kSensorCalibrationConstantSDP8x6Linear125Pa1,
                     kSensorCalibrationConstantSDP8x6Linear125Pa2, Aout, Vdd)
        cv1 == IF c1 THEN v1 ELSE cv0
        t1 == IF c1
              THEN [t0 EXCEPT ![kOutputDistributionIndexCalibratedSensorOutputSDP8x6Linear125Pa] = v1]
              ELSE t0
        c2 == calculateAllOutputs \/
              args.outputSelect = kOutputDistributionIndexCalibratedSensorOutputSDP8x6Sqrt500Pa
        v2 == Sqrt(kSensorCalibrationConstantSDP8x6Sqrt500Pa1,
                   kSensorCalibrationConstantSDP8x6Sqrt500Pa2,
                   kSensorCalibrationConstantSDP8x6Sqrt500Pa3,
                   kSensorCalibrationConstantSDP8x6Sqrt500Pa4, Aout, Vdd)
        cv2 == IF c2 THEN v2 ELSE cv1
        t2 == IF c2
              THEN [t1 EXCEPT ![kOutputDistributionIndexCalibratedSensorOutputSDP8x6Sqrt500Pa] = v2]
              ELSE t1
        c3 == calculateAllOutputs \/
              args.outputSelect = kOutputDistributionIndexCalibratedSensorOutputSDP8x6Sqrt125Pa
        v3 == Sqrt(kSensorCalibrationConstantSDP8x6Sqrt125Pa1,
                   kSensorCalibrationConstantSDP8x6Sqrt125Pa2,
                   kSensorCalibrationConstantSDP8x6Sqrt125Pa3,
                   kSensorCalibrationConstantSDP8x6Sqrt125Pa4, Aout, Vdd)
        cv3 == IF c3 THEN v3 ELSE cv2
        t3 == IF c3
              THEN [t2 EXCEPT ![kOutputDistributionIndexCalibratedSensorOutputSDP8x6Sqrt125Pa] = v3]
              ELSE t2
    IN  [ table |-> t3,
          wrote |-> {k \in OutputIndices :
                        \/ (k = 0 /\ c0) \/ (k = 1 /\ c1)
                        \/ (k = 2 /\ c2) \/ (k = 3 /\ c3)},
          ret   |-> cv3 ]

RECURSIVE SumSeq(_)
SumSeq(s) == IF s = << >> THEN 0 ELSE Head(s) + SumSeq(Tail(s))

\* calculateMeanAndVarianceOfDoubleSamples(...).mean: the arithmetic average
MeanOfSamples(samples, n) == SumSeq(SubSeq(samples, 1, n)) \div n

\* (uint64_t)(cpuTimeUsedSeconds * 1000000), cpuTimeUsedSeconds held in ticks
ElapsedMicroseconds(ticks) == (ticks * MicrosecondsPerSecond) \div ClocksPerSec

\* the entries of the table that printJSONFormattedOutput reports
JSONEntries(args) ==
    IF args.outputSelect = kOutputDistributionIndexCalibratedSensorOutputMax
    THEN OutputIndices
    ELSE {args.outputSelect}

\* the rows writeOutputDoubleDistributionsToCSV writes for a count of entries
CSVRows(count) == 0 .. (count - 1)

\* one item written to standard output: its kind, the index of the display
\* name used (-1 if none), the entries of outputDistributions it reads, the
\* calibrated value and the elapsed time it holds, and whether that elapsed
\* time comes from an assigned cpuTimeUsedSeconds
Line(kind, name, entries, value, elapsed, clocked) ==
    [kind |-> kind, name |-> name, entries |-> entries, value |-> value,
     elapsed |-> elapsed, clocked |-> clocked]

(* -------------------------------- Init -------------------------------- *)
ZeroArguments ==
    [ outputSelect |-> 0, isMonteCarloMode |-> FALSE, isTimingEnabled |-> FALSE,
      isBenchmarkingMode |-> FALSE, isOutputJSONMode |-> FALSE,
      isWriteToFileEnabled |-> FALSE, numberOfMonteCarloIterations |-> 0 ]

Init ==
    /\ pc = "getArguments"
    /\ arguments = ZeroArguments
    /\ indeterminate \in Indeterminate
    /\ inputDistributions = [k \in 0 .. (kInputDistributionIndexMax - 1) |-> indeterminate]
    /\ outputDistributions = [k \in OutputIndices |-> indeterminate]
    /\ written = {}
    /\ lastWritten = {}
    /\ calibratedSensorOutput = indeterminate
    /\ lastReturned = indeterminate
    /\ monteCarloOutputSamples = << >>
    /\ heap = "null"
    /\ freeCount = 0
    /\ slotWrites = << >>
    /\ i = 0
    /\ sampleCalls = 0
    /\ calibrationCalls = 0
    /\ reduceCount = 0
    /\ start = indeterminate
    /\ end = indeterminate
    /\ clockRead = {}
    /\ cpuTimeUsedSeconds = indeterminate
    /\ cpuTimeAssigned = FALSE
    /\ stdout = << >>
    /\ csvWrites = << >>
    /\ dataDotOut = << >>
    /\ exitCode = 0

(* ------------------------------ actions ------------------------------- *)
ArgumentSpace ==
    [ outputSelect : 0 .. kOutputDistributionIndexCalibratedSensorOutputMax,
      isMonteCarloMode : BOOLEAN, isTimingEnabled : BOOLEAN,
      isBenchmarkingMode : BOOLEAN, isOutputJSONMode : BOOLEAN,
      isWriteToFileEnabled : BOOLEAN,
      numberOfMonteCarloIterations : 1 .. MaxIterations ]

\* main.c 153-156, getCommandLineArguments returns an error
GetArgumentsError ==
    /\ pc = "getArguments"
    /\ pc' = "returned"
    /\ exitCode' = kCommonConstantReturnTypeError
    /\ UNCHANGED << arguments, indeterminate, inputDistributions, outputDistributions,
                    written, lastWritten, calibratedSensorOutput, lastReturned,
                    monteCarloOutputSamples, heap, freeCount, slotWrites, i,
                    sampleCalls, calibrationCalls, reduceCount, start, end,
                    clockRead, cpuTimeUsedSeconds, cpuTimeAssigned, stdout,
                    csvWrites, dataDotOut >>

\* main.c 153, getCommandLineArguments fills the arguments
GetArgumentsOk ==
    /\ pc = "getArguments"
    /\ arguments' \in ArgumentSpace
    /\ pc' = "allocate"
    /\ UNCHANGED << indeterminate, inputDistributions, outputDistributions,
                    written, lastWritten, calibratedSensorOutput, lastReturned,
                    monteCarloOutputSamples, heap, freeCount, slotWrites, i,
                    sampleCalls, calibrationCalls, reduceCount, start, end,
                    clockRead, cpuTimeUsedSeconds, cpuTimeAssigned, stdout,
                    csvWrites, dataDotOut, exitCode >>

\* main.c 158-164, the buffer is allocated in Monte Carlo mode only
Allocate ==
    /\ pc = "allocate"
    /\ IF arguments.isMonteCarloMode
       THEN /\ monteCarloOutputSamples' =
                   [k \in 1 .. arguments.numberOfMonteCarloIterations |-> indeterminate]
            /\ heap' = "allocated"
       ELSE UNCHANGED << monteCarloOutputSamples, heap >>
    /\ pc' = "startTiming"
    /\ UNCHANGED << arguments, indeterminate, inputDistributions, outputDistributions,
                    written, lastWritten, calibratedSensorOutput, lastReturned,
                    freeCount, slotWrites, i, sampleCalls, calibrationCalls,
                    reduceCount, start, end, clockRead, cpuTimeUsedSeconds,
                    cpuTimeAssigned, stdout, csvWrites, dataDotOut, exitCode >>

\* main.c 160, checkedMalloc cannot reserve the buffer and ends the process
AllocateFails ==
    /\ pc = "allocate"
    /\ arguments.isMonteCarloMode
    /\ pc' = "aborted"
    /\ exitCode' = kExitFailure
    /\ UNCHANGED << arguments, indeterminate, inputDistributions, outputDistributions,
                    written, lastWritten, calibratedSensorOutput, lastReturned,
                    monteCarloOutputSamples, heap, freeCount, slotWrites, i,
                    sampleCalls, calibrationCalls, reduceCount, start, end,
                    clockRead, cpuTimeUsedSeconds, cpuTimeAssigned, stdout,
                    csvWrites, dataDotOut >>

\* main.c 169-172
StartTiming ==
    /\ pc = "startTiming"
    /\ IF arguments.isTimingEnabled \/ arguments.isBenchmarkingMode
       THEN /\ start' \in 0 .. MaxTicks
            /\ clockRead' = clockRead \cup {"start"}
       ELSE UNCHANGED << start, clockRead >>
    /\ i' = 0
    /\ pc' = "loop"
    /\ UNCHANGED << arguments, indeterminate, inputDistributions, outputDistributions,
                    written, lastWritten, calibratedSensorOutput, lastReturned,
                    monteCarloOutputSamples, heap, freeCount, slotWrites,
                    sampleCalls, calibrationCalls, reduceCount, end,
                    cpuTimeUsedSeconds, cpuTimeAssigned, stdout, csvWrites,
                    dataDotOut, exitCode >>

\* a loop body that stores the sample one slot too far
LoopIterationShifted ==
    /\ pc = "loop"
    /\ i < arguments.numberOfMonteCarloIterations
    /\ \E aout \in UxHwDoubleUniformDist(kDefaultInputDistributionAoutUniformDistLow,
                                         kDefaultInputDistributionAoutUniformDistHigh),
          vdd \in UxHwDoubleUniformDist(kDefaultInputDistributionVddUniformDistLow,
                                        kDefaultInputDistributionVddUniformDistHigh) :
          LET in == [k \in 0 .. (kInputDistributionIndexMax - 1) |->
                        IF k = kInputDistributionIndexAout THEN aout ELSE vdd]
              r == calculateSensorOutput(arguments, in, outputDistributions)
          IN  /\ inputDistributions' = in
              /\ outputDistributions' = r.table
              /\ written' = written \cup r.wrote
              /\ lastWritten' = r.wrote
              /\ calibratedSensorOutput' = r.ret
              /\ lastReturned' = r.ret
              /\ IF arguments.isMonteCarloMode
                 THEN /\ monteCarloOutputSamples' =
                             [k \in DOMAIN monteCarloOutputSamples |->
                                 IF k = i + 2 THEN r.ret ELSE monteCarloOutputSamples[k]]
                      /\ slotWrites' = Append(slotWrites, i + 1)
                 ELSE UNCHANGED << monteCarloOutputSamples, slotWrites >>
    /\ sampleCalls' = sampleCalls + 1
    /\ calibrationCalls' = calibrationCalls + 1
    /\ i' = i + 1
    /\ UNCHANGED << pc, arguments, indeterminate, heap, freeCount, reduceCount,
                    start, end, clockRead, cpuTimeUsedSeconds, cpuTimeAssigned,
                    stdout, csvWrites, dataDotOut, exitCode >>

\* main.c 174-192, one iteration of the loop
LoopIteration ==
    /\ pc = "loop"
    /\ i < arguments.numberOfMonteCarloIterations
    /\ \E aout \in UxHwDoubleUniformDist(kDefaultInputDistributionAoutUniformDistLow,
                                         kDefaultInputDistributionAoutUniformDistHigh),
          vdd \in UxHwDoubleUniformDist(kDefaultInputDistributionVddUniformDistLow,
                                        kDefaultInputDistributionVddUniformDistHigh) :
          LET in == [k \in 0 .. (kInputDistributionIndexMax - 1) |->
                        IF k = kInputDistributionIndexAout THEN aout ELSE vdd]
              r == calculateSensorOutput(arguments, in, outputDistributions)
          IN  /\ inputDistributions' = in
              /\ outputDistributions' = r.table
              /\ written' = written \cup r.wrote
              /\ lastWritten' = r.wrote
              /\ calibratedSensorOutput' = r.ret
              /\ lastReturned' = r.ret
              /\ IF arguments.isMonteCarloMode
                 THEN /\ monteCarloOutputSamples' =
                             [monteCarloOutputSamples EXCEPT ![i + 1] = r.ret]
                      /\ slotWrites' = Append(slotWrites, i)
                 ELSE UNCHANGED << monteCarloOutputSamples, slotWrites >>
    /\ sampleCalls' = sampleCalls + 1
    /\ calibrationCalls' = calibrationCalls + 1
    /\ i' = i + 1
    /\ UNCHANGED << pc, arguments, indeterminate, heap, freeCount, reduceCount,
                    start, end, clockRead, cpuTimeUsedSeconds, cpuTimeAssigned,
                    stdout, csvWrites, dataDotOut, exitCode >>

\* main.c 174 (loop exit) and 198-204, the reduction of the samples
Reduce ==
    /\ pc = "loop"
    /\ ~(i < arguments.numberOfMonteCarloIterations)
    /\ IF arguments.isMonteCarloMode
       THEN /\ calibratedSensorOutput' =
                   MeanOfSamples(monteCarloOutputSamples,
                                 arguments.numberOfMonteCarloIterations)
            /\ reduceCount' = reduceCount + 1
       ELSE UNCHANGED << calibratedSensorOutput, reduceCount >>
    /\ pc' = "stopTiming"
    /\ UNCHANGED << arguments, indeterminate, inputDistributions, outputDistributions,
                    written, lastWritten, lastReturned, monteCarloOutputSamples,
                    heap, freeCount, slotWrites, i, sampleCalls, calibrationCalls,
                    start, end, clockRead, cpuTimeUsedSeconds, cpuTimeAssigned,
                    stdout, csvWrites, dataDotOut, exitCode >>

\* main.c 209-213
StopTiming ==
    /\ pc = "stopTiming"
    /\ IF arguments.isTimingEnabled \/ arguments.isBenchmarkingMode
       THEN \E ticks \in 0 .. MaxTicks :
               /\ end' = start + ticks
               /\ clockRead' = clockRead \cup {"end"}
               /\ cpuTimeUsedSeconds' = (start + ticks) - start
               /\ cpuTimeAssigned' = TRUE
       ELSE UNCHANGED << end, clockRead, cpuTimeUsedSeconds, cpuTimeAssigned >>
    /\ pc' = "report"
    /\ UNCHANGED << arguments, indeterminate, inputDistributions, outputDistributions,
                    written, lastWritten, calibratedSensorOutput, lastReturned,
                    monteCarloOutputSamples, heap, freeCount, slotWrites, i,
                    sampleCalls, calibrationCalls, reduceCount, start, stdout,
                    csvWrites, dataDotOut, exitCode >>

\* main.c 215-223, the benchmark line
ReportBenchmark ==
    /\ pc = "report"
    /\ arguments.isBenchmarkingMode
    /\ stdout' = Append(stdout,
                        Line("benchmark", -1, {}, calibratedSensorOutput,
                             ElapsedMicroseconds(cpuTimeUsedSeconds), cpuTimeAssigned))
    /\ pc' = "save"
    /\ UNCHANGED << arguments, indeterminate, inputDistributions, outputDistributions,
                    written, lastWritten, calibratedSensorOutput, lastReturned,
                    monteCarloOutputSamples, heap, freeCount, slotWrites, i,
                    sampleCalls, calibrationCalls, reduceCount, start, end,
                    clockRead, cpuTimeUsedSeconds, cpuTimeAssigned, csvWrites,
                    dataDotOut, exitCode >>

\* plain-text blocks that are not suppressed by benchmarking mode
ReportPlainUnguarded ==
    /\ pc = "report"
    /\ ~arguments.isOutputJSONMode
    /\ IF arguments.outputSelect = kOutputDistributionIndexCalibratedSensorOutputMax
       THEN stdout' = stdout \o
                [k \in 1 .. kOutputDistributionIndexCalibratedSensorOutputMax |->
                    Line("plain", k - 1, {k - 1}, outputDistributions[k - 1], 0, TRUE)]
       ELSE stdout' = Append(stdout,
                             Line("plain", arguments.outputSelect, {},
                                  calibratedSensorOutput, 0, TRUE))
    /\ pc' = "printTiming"
    /\ UNCHANGED << arguments, indeterminate, inputDistributions, outputDistributions,
                    written, lastWritten, calibratedSensorOutput, lastReturned,
                    monteCarloOutputSamples, heap, freeCount, slotWrites, i,
                    sampleCalls, calibrationCalls, reduceCount, start, end,
                    clockRead, cpuTimeUsedSeconds, cpuTimeAssigned, csvWrites,
                    dataDotOut, exitCode >>

\* main.c 229-244, the plain-text blocks
ReportPlain ==
    /\ pc = "report"
    /\ ~arguments.isBenchmarkingMode
    /\ ~arguments.isOutputJSONMode
    /\ IF arguments.outputSelect = kOutputDistributionIndexCalibratedSensorOutputMax
       THEN stdout' = stdout \o
                [k \in 1 .. kOutputDistributionIndexCalibratedSensorOutputMax |->
                    Line("plain", k - 1, {k - 1}, outputDistributions[k - 1], 0, TRUE)]
       ELSE stdout' = Append(stdout,
                             Line("plain", arguments.outputSelect, {},
                                  calibratedSensorOutput, 0, TRUE))
    /\ pc' = "printTiming"
    /\ UNCHANGED << arguments, indeterminate, inputDistributions, outputDistributions,
                    written, lastWritten, calibratedSensorOutput, lastReturned,
                    monteCarloOutputSamples, heap, freeCount, slotWrites, i,
                    sampleCalls, calibrationCalls, reduceCount, start, end,
                    clockRead, cpuTimeUsedSeconds, cpuTimeAssigned, csvWrites,
                    dataDotOut, exitCode >>

\* main.c 245-252, the JSON report
ReportJSON ==
    /\ pc = "report"
    /\ ~arguments.isBenchmarkingMode
    /\ arguments.isOutputJSONMode
    /\ stdout' = Append(stdout, Line("json", -1, JSONEntries(arguments), 0, 0, TRUE))
    /\ pc' = "printTiming"
    /\ UNCHANGED << arguments, indeterminate, inputDistributions, outputDistributions,
                    written, lastWritten, calibratedSensorOutput, lastReturned,
                    monteCarloOutputSamples, heap, freeCount, slotWrites, i,
                    sampleCalls, calibrationCalls, reduceCount, start, end,
                    clockRead, cpuTimeUsedSeconds, cpuTimeAssigned, csvWrites,
                    dataDotOut, exitCode >>

\* a timing step that also prints the line when timing was not requested
PrintTimingAlways ==
    /\ pc = "printTiming"
    /\ stdout' = Append(stdout,
                        Line("cputime", -1, {}, 0, cpuTimeUsedSeconds, cpuTimeAssigned))
    /\ pc' = "writeCSV"
    /\ UNCHANGED << arguments, indeterminate, inputDistributions, outputDistributions,
                    written, lastWritten, calibratedSensorOutput, lastReturned,
                    monteCarloOutputSamples, heap, freeCount, slotWrites, i,
                    sampleCalls, calibrationCalls, reduceCount, start, end,
                    clockRead, cpuTimeUsedSeconds, cpuTimeAssigned, csvWrites,
                    dataDotOut, exitCode >>

\* main.c 257-260, the CPU-time line
PrintTiming ==
    /\ pc = "printTiming"
    /\ IF arguments.isTimingEnabled
       THEN stdout' = Append(stdout,
                             Line("cputime", -1, {}, 0, cpuTimeUsedSeconds,
                                  cpuTimeAssigned))
       ELSE UNCHANGED stdout
    /\ pc' = "writeCSV"
    /\ UNCHANGED << arguments, indeterminate, inputDistributions, outputDistributions,
                    written, lastWritten, calibratedSensorOutput, lastReturned,
                    monteCarloOutputSamples, heap, freeCount, slotWrites, i,
                    sampleCalls, calibrationCalls, reduceCount, start, end,
                    clockRead, cpuTimeUsedSeconds, cpuTimeAssigned, csvWrites,
                    dataDotOut, exitCode >>

\* main.c 265-275, the CSV write succeeds or is not requested
WriteOutputData ==
    /\ pc = "writeCSV"
    /\ IF arguments.isWriteToFileEnabled
       THEN csvWrites' = Append(csvWrites,
                                [rows |-> CSVRows(kOutputDistributionIndexCalibratedSensorOutputMax),
                                 failed |-> FALSE])
       ELSE UNCHANGED csvWrites
    /\ pc' = "save"
    /\ UNCHANGED << arguments, indeterminate, inputDistributions, outputDistributions,
                    written, lastWritten, calibratedSensorOutput, lastReturned,
                    monteCarloOutputSamples, heap, freeCount, slotWrites, i,
                    sampleCalls, calibrationCalls, reduceCount, start, end,
                    clockRead, cpuTimeUsedSeconds, cpuTimeAssigned, stdout,
                    dataDotOut, exitCode >>

\* a failing CSV write whose error is dropped
WriteOutputDataFailsIgnored ==
    /\ pc = "writeCSV"
    /\ arguments.isWriteToFileEnabled
    /\ csvWrites' = Append(csvWrites,
                           [rows |-> CSVRows(kOutputDistributionIndexCalibratedSensorOutputMax),
                            failed |-> TRUE])
    /\ pc' = "returned"
    /\ exitCode' = 0
    /\ UNCHANGED << arguments, indeterminate, inputDistributions, outputDistributions,
                    written, lastWritten, calibratedSensorOutput, lastReturned,
                    monteCarloOutputSamples, heap, freeCount, slotWrites, i,
                    sampleCalls, calibrationCalls, reduceCount, start, end,
                    clockRead, cpuTimeUsedSeconds, cpuTimeAssigned, stdout,
                    dataDotOut >>

\* main.c 265-274, the CSV write fails and main returns the error
WriteOutputDataFails ==
    /\ pc = "writeCSV"
    /\ arguments.isWriteToFileEnabled
    /\ csvWrites' = Append(csvWrites,
                           [rows |-> CSVRows(kOutputDistributionIndexCalibratedSensorOutputMax),
                            failed |-> TRUE])
    /\ pc' = "returned"
    /\ exitCode' = kCommonConstantReturnTypeError
    /\ UNCHANGED << arguments, indeterminate, inputDistributions, outputDistributions,
                    written, lastWritten, calibratedSensorOutput, lastReturned,
                    monteCarloOutputSamples, heap, freeCount, slotWrites, i,
                    sampleCalls, calibrationCalls, reduceCount, start, end,
                    clockRead, cpuTimeUsedSeconds, cpuTimeAssigned, stdout,
                    dataDotOut >>

\* main.c 282-289, the auxiliary data file, the release of the buffer and
\* the return of main
SaveAndReturn ==
    /\ pc = "save"
    /\ IF arguments.isMonteCarloMode
       THEN /\ dataDotOut' = Append(dataDotOut,
                                    [samples |-> monteCarloOutputSamples,
                                     elapsed |-> ElapsedMicroseconds(cpuTimeUsedSeconds),
                                     clocked |-> cpuTimeAssigned,
                                     count   |-> arguments.numberOfMonteCarloIterations])
            /\ heap' = "freed"
            /\ freeCount' = freeCount + 1
       ELSE UNCHANGED << dataDotOut, heap, freeCount >>
    /\ pc' = "returned"
    /\ exitCode' = 0
    /\ UNCHANGED << arguments, indeterminate, inputDistributions, outputDistributions,
                    written, lastWritten, calibratedSensorOutput, lastReturned,
                    monteCarloOutputSamples, slotWrites, i, sampleCalls,
                    calibrationCalls, reduceCount, start, end, clockRead,
                    cpuTimeUsedSeconds, cpuTimeAssigned, stdout, csvWrites >>

Next ==
    \/ GetArgumentsError
    \/ GetArgumentsOk
    \/ Allocate
    \/ AllocateFails
    \/ StartTiming
    \/ LoopIteration
    \/ Reduce
    \/ StopTiming
    \/ ReportBenchmark
    \/ ReportPlain
    \/ ReportJSON
    \/ PrintTiming
    \/ WriteOutputData
    \/ WriteOutputDataFails
    \/ SaveAndReturn

Spec == Init /\ [][Next]_vars

(* --------------------------- derived notions -------------------------- *)
Lines(kind) == {n \in 1 .. Len(stdout) : stdout[n].kind = kind}

SingleSelected == arguments.outputSelect \in OutputIndices

AllSelected ==
    arguments.outputSelect = kOutputDistributionIndexCalibratedSensorOutputMax

\* main returned at main.c 155: the arguments are still the zeroed struct
ArgumentsRejected == pc = "returned" /\ arguments = ZeroArguments

CSVFailed == \E n \in 1 .. Len(csvWrites) : csvWrites[n].failed

\* main is past the loop and the reduction (main.c 205 onwards)
AfterLoop ==
    \/ pc \in {"stopTiming", "report", "printTiming", "writeCSV", "save"}
    \/ pc = "returned" /\ ~ArgumentsRejected

\* main is past the reporting branch (main.c 277 onwards)
AfterReport == pc = "save" \/ (pc = "returned" /\ ~ArgumentsRejected /\ ~CSVFailed)

N == arguments.numberOfMonteCarloIterations

\* the value of variant k for the inputs of the latest iteration
VariantValue(k) ==
    LET Aout == inputDistributions[kInputDistributionIndexAout]
        Vdd == inputDistributions[kInputDistributionIndexVdd]
    IN  CASE k = 0 -> Linear(kSensorCalibrationConstantSDP8x6Linear500Pa1,
                             kSensorCalibrationConstantSDP8x6Linear500Pa2, Aout, Vdd)
          [] k = 1 -> Linear(kSensorCalibrationConstantSDP8x6Linear125Pa1,
                             kSensorCalibrationConstantSDP8x6Linear125Pa2, Aout, Vdd)
          [] k = 2 -> Sqrt(kSensorCalibrationConstantSDP8x6Sqrt500Pa1,
                           kSensorCalibrationConstantSDP8x6Sqrt500Pa2,
                           kSensorCalibrationConstantSDP8x6Sqrt500Pa3,
                           kSensorCalibrationConstantSDP8x6Sqrt500Pa4, Aout, Vdd)
          [] k = 3 -> Sqrt(kSensorCalibrationConstantSDP8x6Sqrt125Pa1,
                           kSensorCalibrationConstantSDP8x6Sqrt125Pa2,
                           kSensorCalibrationConstantSDP8x6Sqrt125Pa3,
                           kSensorCalibrationConstantSDP8x6Sqrt125Pa4, Aout, Vdd)

\* the entries of outputDistributions handed to an output routine so far
EntriesReported ==
    UNION ({stdout[n].entries : n \in 1 .. Len(stdout)}
           \cup {csvWrites[n].rows : n \in 1 .. Len(csvWrites)})

TypeOK ==
    /\ pc \in {"getArguments", "allocate", "startTiming", "loop", "stopTiming",
               "report", "printTiming", "writeCSV", "save", "returned", "aborted"}
    /\ written \subseteq OutputIndices
    /\ heap \in {"null", "allocated", "freed"}
    /\ i \in 0 .. (MaxIterations + 1)

(* ------------------------------- claims ------------------------------- *)

\* C1: one call of calculateSensorOutput writes all four entries of
\* outputDistributions when the selection is "all", each with the value of
\* its variant; with a single variant selected it writes exactly the entry
\* of that variant and leaves the other three entries unchanged.
C1_CallWritesSelection ==
    [][ calibrationCalls' = calibrationCalls + 1 =>
          IF AllSelected
          THEN /\ lastWritten' = OutputIndices
               /\ \A k \in OutputIndices : outputDistributions'[k] = VariantValue(k)'
          ELSE /\ lastWritten' = {arguments.outputSelect}
               /\ outputDistributions'[arguments.outputSelect] =
                      VariantValue(arguments.outputSelect)'
               /\ \A k \in OutputIndices \ {arguments.outputSelect} :
                      outputDistributions'[k] = outputDistributions[k] ]_vars

C1_Witness ==
    /\ calibrationCalls >= 1
    /\ arguments.outputSelect = kOutputDistributionIndexCalibratedSensorOutputSDP8x6Sqrt500Pa
    /\ written = {kOutputDistributionIndexCalibratedSensorOutputSDP8x6Sqrt500Pa}
    /\ outputDistributions[kOutputDistributionIndexCalibratedSensorOutputSDP8x6Sqrt500Pa]
           # indeterminate
    /\ outputDistributions[kOutputDistributionIndexCalibratedSensorOutputSDP8x6Sqrt125Pa]
           = indeterminate

\* C2: with a single variant selected, every reporting path reads only the
\* entry of the selected variant, and no entry that the calibration pass
\* never wrote is handed to an output routine.
C2_OnlySelectedEntryReported ==
    SingleSelected =>
        /\ EntriesReported \subseteq {arguments.outputSelect}
        /\ EntriesReported \subseteq written

\* C3: in Monte Carlo mode every run that passed argument parsing and the
\* allocation has called saveMonteCarloDoubleDataToDataDotOutFile when main
\* returns, whatever the reporting flags and the outcome of the CSV write.
C3_MonteCarloAlwaysSaved ==
    (pc = "returned" /\ arguments.isMonteCarloMode) => Len(dataDotOut) = 1

\* C4 (as stated): with the JSON flag set and benchmarking not set, no
\* plain-text block and no CPU-time line is printed and no CSV write is
\* attempted; a CSV write is attempted only with the write-to-file flag set
\* and neither benchmarking nor JSON mode set.
C4_JSONExclusive ==
    /\ (arguments.isOutputJSONMode /\ ~arguments.isBenchmarkingMode) =>
          /\ Lines("plain") = {}
          /\ Lines("cputime") = {}
          /\ csvWrites = << >>
    /\ csvWrites # << >> =>
          /\ arguments.isWriteToFileEnabled
          /\ ~arguments.isBenchmarkingMode
          /\ ~arguments.isOutputJSONMode

\* C4 (amended): with the JSON flag set and benchmarking not set, the JSON
\* report replaces the plain-text blocks only: no plain-text block is
\* printed, the CPU-time line is printed exactly when timing is requested,
\* and the CSV write is attempted exactly when the write-to-file flag is
\* set; a CSV write is attempted only when the write-to-file flag is set
\* and benchmarking is not set.
C4_JSONReplacesPlainOnly ==
    /\ (arguments.isOutputJSONMode /\ ~arguments.isBenchmarkingMode) =>
          /\ Lines("plain") = {}
          /\ pc \in {"printTiming", "writeCSV", "save", "returned"} =>
                Cardinality(Lines("json")) = 1
          /\ pc \in {"writeCSV", "save", "returned"} =>
                (Lines("cputime") # {} <=> arguments.isTimingEnabled)
          /\ pc \in {"save", "returned"} =>
                (csvWrites # << >> <=> arguments.isWriteToFileEnabled)
    /\ csvWrites # << >> =>
          /\ arguments.isWriteToFileEnabled
          /\ ~arguments.isBenchmarkingMode
    /\ Lines("cputime") # {} => arguments.isTimingEnabled

C4_Witness ==
    /\ pc = "returned"
    /\ arguments.isOutputJSONMode
    /\ ~arguments.isBenchmarkingMode
    /\ arguments.isTimingEnabled
    /\ arguments.isWriteToFileEnabled
    /\ Lines("json") # {}
    /\ Lines("cputime") # {}
    /\ Len(csvWrites) = 1

\* C5: in benchmarking mode, whatever the other flags and the selection,
\* standard output receives exactly one line, after the loop has finished,
\* holding the scalar calibrated result and the elapsed microseconds; no
\* plain-text block, JSON report, CPU-time line or CSV write occurs.
C5_BenchmarkOneLine ==
    arguments.isBenchmarkingMode =>
        /\ \A n \in 1 .. Len(stdout) : stdout[n].kind = "benchmark"
        /\ csvWrites = << >>
        /\ Len(stdout) = (IF AfterReport THEN 1 ELSE 0)
        /\ Len(stdout) = 1 =>
              /\ i = N
              /\ stdout[1].value = calibratedSensorOutput
              /\ stdout[1].elapsed = ElapsedMicroseconds(end - start)

C5_Witness ==
    /\ pc = "returned"
    /\ arguments.isBenchmarkingMode
    /\ arguments.isOutputJSONMode
    /\ arguments.isTimingEnabled
    /\ arguments.isWriteToFileEnabled
    /\ arguments.isMonteCarloMode
    /\ Len(stdout) = 1
    /\ stdout[1].kind = "benchmark"

\* C6: main returns a non-zero code exactly when argument parsing fails or
\* the CSV write fails, and 0 otherwise; on an argument error nothing was
\* allocated, sampled, calibrated or output; on a CSV write failure the
\* plain-text or JSON report, and the CPU-time line if requested, are
\* already printed.
C6_ExitCode ==
    pc = "returned" =>
        /\ exitCode # 0 <=> (ArgumentsRejected \/ CSVFailed)
        /\ ~(ArgumentsRejected \/ CSVFailed) => exitCode = 0
        /\ ArgumentsRejected =>
              /\ heap = "null"
              /\ sampleCalls = 0
              /\ calibrationCalls = 0
              /\ clockRead = {}
              /\ stdout = << >>
              /\ csvWrites = << >>
              /\ dataDotOut = << >>
        /\ CSVFailed =>
              /\ Lines("plain") \cup Lines("json") # {}
              /\ arguments.isTimingEnabled => Lines("cputime") # {}

C6_Witness ==
    /\ pc = "returned"
    /\ exitCode # 0
    /\ CSVFailed
    /\ arguments.isTimingEnabled
    /\ Lines("plain") # {}
    /\ Lines("cputime") # {}

\* C7: the Monte Carlo sample buffer is freed exactly once on every path by
\* which main returns after the allocation, the path of a failed CSV write
\* included.
C7_BufferReleased ==
    (pc = "returned" /\ heap # "null") => (heap = "freed" /\ freeCount = 1)

\* C8: every elapsed-time value the program emits (benchmark line, CPU-time
\* line, auxiliary data file) was computed in this run from a start and an
\* end clock reading: cpuTimeUsedSeconds is never read unassigned.
C8_ElapsedFromClock ==
    /\ \A n \in Lines("benchmark") \cup Lines("cputime") :
          /\ stdout[n].clocked
          /\ clockRead = {"start", "end"}
    /\ \A n \in 1 .. Len(dataDotOut) :
          /\ dataDotOut[n].clocked
          /\ clockRead = {"start", "end"}
          /\ dataDotOut[n].elapsed = ElapsedMicroseconds(end - start)

\* C9: the loop runs exactly N iterations, each with one fresh input sample
\* and one calibration call; in Monte Carlo mode iteration i writes slot i
\* of the buffer of N slots, in increasing order, so that all N slots are
\* written when the reduction runs; the reduction runs exactly once, after
\* the loop, in Monte Carlo mode, and replaces the scalar output by the
\* mean; without Monte Carlo mode there is no reduction and no sample is
\* stored.
C9_LoopAndReduction ==
    /\ i <= N
    /\ sampleCalls = i
    /\ calibrationCalls = i
    /\ AfterLoop => i = N
    /\ arguments.isMonteCarloMode =>
          /\ slotWrites = [k \in 1 .. i |-> k - 1]
          /\ \A k \in 1 .. Len(slotWrites) : slotWrites[k] \in 0 .. (N - 1)
          /\ heap # "null" => Len(monteCarloOutputSamples) = N
          /\ reduceCount = (IF AfterLoop THEN 1 ELSE 0)
          /\ AfterLoop => {slotWrites[k] : k \in 1 .. Len(slotWrites)} = 0 .. (N - 1)
          /\ AfterLoop => N * calibratedSensorOutput <= SumSeq(monteCarloOutputSamples)
          /\ AfterLoop => SumSeq(monteCarloOutputSamples) < N * (calibratedSensorOutput + 1)
    /\ ~arguments.isMonteCarloMode =>
          /\ slotWrites = << >>
          /\ monteCarloOutputSamples = << >>
          /\ reduceCount = 0

C9_Witness ==
    /\ pc = "stopTiming"
    /\ arguments.isMonteCarloMode
    /\ N >= 2
    /\ i = N
    /\ Len(slotWrites) = N
    /\ reduceCount = 1
    /\ monteCarloOutputSamples[1] # monteCarloOutputSamples[2]

\* the entry of the table that holds the last variant computed
LastVariant ==
    IF AllSelected
    THEN kOutputDistributionIndexCalibratedSensorOutputSDP8x6Sqrt125Pa
    ELSE arguments.outputSelect

ReturnedIsLastVariant ==
    /\ calibrationCalls >= 1 =>
          /\ lastReturned = outputDistributions[LastVariant]
          /\ lastReturned = VariantValue(LastVariant)
    /\ (arguments.isMonteCarloMode /\ i >= 1 /\ heap = "allocated") =>
          monteCarloOutputSamples[i] = lastReturned

\* C10 (as stated): the scalar returned by calculateSensorOutput is the
\* value of the last variant computed (Sqrt125Pa with "all", the selected
\* variant otherwise); this returned scalar is the value stored as the
\* Monte Carlo sample and the value reported in the benchmark line.
C10_ReturnedScalarReported ==
    /\ ReturnedIsLastVariant
    /\ \A n \in Lines("benchmark") : stdout[n].value = lastReturned

\* C10 (amended): the scalar returned by calculateSensorOutput is the value
\* of the last variant computed; it is the value stored as the Monte Carlo
\* sample; the benchmark line reports the scalar returned by the last
\* iteration when Monte Carlo mode is off, and the mean of the stored
\* samples when Monte Carlo mode is on.
C10_ReturnedScalarTracked ==
    /\ ReturnedIsLastVariant
    /\ \A n \in Lines("benchmark") :
          stdout[n].value =
              IF arguments.isMonteCarloMode
              THEN MeanOfSamples(monteCarloOutputSamples, N)
              ELSE lastReturned

C10_Witness ==
    /\ Lines("benchmark") # {}
    /\ AllSelected
    /\ arguments.isMonteCarloMode
    /\ N >= 2
    /\ monteCarloOutputSamples[N] = lastReturned
    /\ stdout[1].value # lastReturned

====
